---------------------------- MODULE Spec2Model ----------------------------
(***************************************************************************)
(* ECDSA public-key recovery (SEC1 v2, section 4.1.6) as implemented by    *)
(* key_recovery in src/src/ec_key_recovery.c.                              *)
(*                                                                         *)
(* The function is modelled statement by statement: one action per library *)
(* call of the C function, in the order of the source, with the program    *)
(* position in pc.  The curve arithmetic library (OpenSSL) is modelled by  *)
(* what its operations compute: big-integer parsing, modular inverse,      *)
(* point decompression, chord-and-tangent addition, double-and-add scalar  *)
(* multiplication and point encoding.                                      *)
(*                                                                         *)
(* prime256v1 does not fit the integers of the model checker, so the       *)
(* named curve is scaled down to an 8-bit curve that keeps the structure   *)
(* of prime256v1 that the function depends on:                             *)
(*   - short Weierstrass form y^2 = x^3 + a*x + b over a prime field with  *)
(*     a = p - 3 and p = 3 (mod 4);                                        *)
(*   - prime group order n, cofactor 1, with n < p;                        *)
(*   - the bit length of n is exactly 8 * curve_byte_length, so a digest   *)
(*     of curve_byte_length bytes is used whole by a signer;               *)
(*   - b is a square, so x = 0 is the x-coordinate of a point (on          *)
(*     prime256v1 the point (0, 66485c78...174f93f4) exists);              *)
(*   - there are points whose x-coordinate lies in [n, p-1].               *)
(***************************************************************************)
EXTENDS Integers, Sequences, FiniteSets, TLC

(***************************************************************************)
(* Curve parameters of the scaled-down named curve.                        *)
(***************************************************************************)
NID_X9_62_prime256v1 == 415
NID_undef == 0

CURVE_BYTE_LENGTH == 1

FieldP == 251
CurveA == 248
CurveB == 58
OrderN == 229
GenX == 239
GenY == 25

SUCCESS == 1
FAILURE == 0

(***************************************************************************)
(* Bounds of the explored inputs.                                          *)
(***************************************************************************)
MaxHashLen == 2
MaxD == 2
MaxK == 4

(***************************************************************************)
(* Points: the point at infinity is the empty tuple, an affine point is    *)
(* <<x, y>>.                                                               *)
(***************************************************************************)
Infinity == << >>
Generator == <<GenX, GenY>>

ModP(v) == v % FieldP

InvModP(v) == CHOOSE w \in 1..(FieldP - 1) : (ModP(v) * w) % FieldP = 1

InvTableP == [v \in 1..(FieldP - 1) |-> InvModP(v)]

FieldInv(v) == InvTableP[ModP(v)]

CurveRhs(x) == ModP(x * x * x + CurveA * x + CurveB)

EC_POINT_is_on_curve(P) ==
    \/ P = Infinity
    \/ /\ P[1] \in 0..(FieldP - 1)
       /\ P[2] \in 0..(FieldP - 1)
       /\ ModP(P[2] * P[2]) = CurveRhs(P[1])

EC_POINT_is_at_infinity(P) == IF P = Infinity THEN 1 ELSE 0

EC_POINT_invert(P) ==
    IF P = Infinity THEN Infinity ELSE <<P[1], ModP(FieldP - P[2])>>

EC_POINT_dbl(P) ==
    IF P = Infinity \/ P[2] = 0 THEN Infinity
    ELSE LET lam == ModP((3 * P[1] * P[1] + CurveA) * FieldInv(2 * P[2]))
             x3  == ModP(lam * lam + 2 * (FieldP - P[1]))
             y3  == ModP(lam * (P[1] + FieldP - x3) + FieldP - P[2])
         IN <<x3, y3>>

EC_POINT_add(P, Q) ==
    IF P = Infinity THEN Q
    ELSE IF Q = Infinity THEN P
    ELSE IF P[1] = Q[1]
         THEN IF P[2] = Q[2] THEN EC_POINT_dbl(P) ELSE Infinity
    ELSE LET lam == ModP((Q[2] + FieldP - P[2]) * FieldInv(Q[1] + FieldP - P[1]))
             x3  == ModP(lam * lam + (FieldP - P[1]) + (FieldP - Q[1]))
             y3  == ModP(lam * (P[1] + FieldP - x3) + FieldP - P[2])
         IN <<x3, y3>>

Abs(k) == IF k < 0 THEN 0 - k ELSE k

RECURSIVE DoubleAndAdd(_, _)
DoubleAndAdd(k, P) ==
    IF k = 0 THEN Infinity
    ELSE LET h == DoubleAndAdd(k \div 2, P)
             d == EC_POINT_dbl(h)
         IN IF k % 2 = 1 THEN EC_POINT_add(d, P) ELSE d

\* EC_POINT_mul(group, r, g_scalar, point, p_scalar, ctx) with exactly one of
\* the two scalars given: the scalar is used with its sign, a negative scalar
\* gives the inverse of the multiple by its magnitude.
EC_POINT_mul(P, k) ==
    IF k < 0 THEN EC_POINT_invert(DoubleAndAdd(Abs(k), P))
    ELSE DoubleAndAdd(k, P)


(***************************************************************************)
(* Big integers.                                                           *)
(***************************************************************************)
NNMod(v, m) == v % m

RECURSIVE ModExp(_, _, _)
ModExp(v, k, m) ==
    IF k = 0 THEN 1 % m
    ELSE LET h == ModExp(v, k \div 2, m)
             q == (h * h) % m
         IN IF k % 2 = 1 THEN (q * (v % m)) % m ELSE q

\* BN_mod_sqrt for a prime p = 3 (mod 4): the candidate root is
\* v^((p+1)/4); it fails when the candidate does not square to v.
BN_mod_sqrt(v) ==
    LET y == ModExp(v, (FieldP + 1) \div 4, FieldP)
    IN IF (y * y) % FieldP = v % FieldP
       THEN [ok |-> TRUE, val |-> y]
       ELSE [ok |-> FALSE, val |-> 0]

BN_is_odd(v) == IF v % 2 = 1 THEN 1 ELSE 0

\* BN_mod_inverse(NULL, a, n, ctx): a is first reduced to [0, n-1]; there is
\* no inverse when the reduced value shares a factor with n.
BN_mod_inverse(a, m) ==
    LET b == NNMod(a, m)
        W == {w \in 1..(m - 1) : (b * w) % m = 1}
    IN IF W = {} THEN [ok |-> FALSE, val |-> 0]
       ELSE [ok |-> TRUE, val |-> CHOOSE w \in W : TRUE]

\* BN_bin2bn(s, len, NULL): big-endian unsigned value of the first len bytes.
RECURSIVE BN_bin2bn(_, _)
BN_bin2bn(s, len) ==
    IF len = 0 THEN 0
    ELSE 256 * BN_bin2bn(s, len - 1) + s[len]

\* BN_set_negative(b, 1): zero stays non-negative.
BN_set_negative(v) == IF v = 0 THEN 0 ELSE 0 - Abs(v)

(***************************************************************************)
(* Hexadecimal strings are sequences of one-character strings.             *)
(***************************************************************************)
HexUpper == <<"0", "1", "2", "3", "4", "5", "6", "7",
              "8", "9", "A", "B", "C", "D", "E", "F">>
HexLower == <<"0", "1", "2", "3", "4", "5", "6", "7",
              "8", "9", "a", "b", "c", "d", "e", "f">>

ossl_isxdigit(c) ==
    \E i \in 1..16 : HexUpper[i] = c \/ HexLower[i] = c

OPENSSL_hexchar2int(c) ==
    (CHOOSE i \in 1..16 : HexUpper[i] = c \/ HexLower[i] = c) - 1

RECURSIVE HexPrefixLen(_)
HexPrefixLen(a) ==
    IF a = << >> \/ ~ossl_isxdigit(Head(a)) THEN 0
    ELSE 1 + HexPrefixLen(Tail(a))

RECURSIVE HexValue(_, _)
HexValue(a, i) ==
    IF i = 0 THEN 0
    ELSE 16 * HexValue(a, i - 1) + OPENSSL_hexchar2int(a[i])

\* BN_hex2bn(&bn, a): an optional '-', then the longest run of hexadecimal
\* digits; what follows the run is ignored.  It returns the number of
\* characters used, 0 when there is no digit.
BN_hex2bn(a) ==
    LET neg  == a # << >> /\ Head(a) = "-"
        body == IF neg THEN Tail(a) ELSE a
        i    == HexPrefixLen(body)
        mag  == HexValue(body, i)
    IN IF i = 0 THEN [ret |-> 0, val |-> 0]
       ELSE [ret |-> i + (IF neg THEN 1 ELSE 0),
             val |-> IF neg THEN 0 - mag ELSE mag]

(***************************************************************************)
(* Point decompression and encoding.                                       *)
(***************************************************************************)
\* EC_POINT_set_compressed_coordinates(group, point, x, y_bit, ctx)
EC_POINT_set_compressed_coordinates(x_, y_bit_) ==
    LET y_bit == IF y_bit_ # 0 THEN 1 ELSE 0
        x     == NNMod(x_, FieldP)
        root  == BN_mod_sqrt(CurveRhs(x))
        y     == IF y_bit # BN_is_odd(root.val)
                 THEN FieldP - root.val ELSE root.val
    IN IF ~root.ok THEN [ret |-> FAILURE, point |-> Infinity]
       ELSE IF y_bit # BN_is_odd(root.val) /\ root.val = 0
            THEN [ret |-> FAILURE, point |-> Infinity]
       ELSE IF y_bit # BN_is_odd(y)
            THEN [ret |-> FAILURE, point |-> Infinity]
       ELSE IF ~EC_POINT_is_on_curve(<<x, y>>)
            THEN [ret |-> FAILURE, point |-> Infinity]
       ELSE [ret |-> SUCCESS, point |-> <<x, y>>]

\* BN_num_bytes(p)
FieldLen == IF FieldP < 256 THEN 1 ELSE 2

RECURSIVE BN_bn2binpad(_, _)
BN_bn2binpad(v, len) ==
    IF len = 0 THEN << >>
    ELSE Append(BN_bn2binpad(v \div 256, len - 1), v % 256)

RECURSIVE OPENSSL_buf2hexstr(_)
OPENSSL_buf2hexstr(buf) ==
    IF buf = << >> THEN << >>
    ELSE <<HexUpper[(Head(buf) \div 16) + 1], HexUpper[(Head(buf) % 16) + 1]>>
         \o OPENSSL_buf2hexstr(Tail(buf))

POINT_CONVERSION_UNCOMPRESSED == 4

\* EC_POINT_point2oct in uncompressed form: the point at infinity is the
\* single octet 0, an affine point is 04 || X || Y.
EC_POINT_point2oct(P) ==
    IF P = Infinity THEN <<0>>
    ELSE <<POINT_CONVERSION_UNCOMPRESSED>>
         \o BN_bn2binpad(P[1], FieldLen) \o BN_bn2binpad(P[2], FieldLen)

EC_POINT_point2hex(P) == OPENSSL_buf2hexstr(EC_POINT_point2oct(P))


(***************************************************************************)
(* Error messages of key_recovery, one per failure site.                   *)
(***************************************************************************)
MSG_V == "signature_v must be either 0, 1, 27 or 28: "
MSG_GROUP == "Could not get EC_GROUP for requested curve: "
MSG_CTX == "Could not allocate memory for BIGNUM context: "
MSG_P_NEW == "Could not allocate memory for BIGNUM p: "
MSG_GET_CURVE == "Could not get prime of selected curve "
MSG_ORDER == "Could not convert curve order (n) to BIGNUM: "
MSG_R_HEX == "Could not convert r of signature to BIGNUM: "
MSG_R_NEW == "Could not allocate memory for point R: "
MSG_COMPRESSED == "Could not set compressed coordinates for point R: "
MSG_NR_NEW == "Could not allocate memory for point nR: "
MSG_NR_MUL == "Could not multiply curve point R with curve order n: "
MSG_NR_INF == "Point nR should be at infinity, but is not: "
MSG_E == "Could not convert data hash to BIGNUM: "
MSG_INVERSE == "Could not calculate the inverse of r: "
MSG_S_HEX == "Could not convert s of signature to BIGNUM: "
MSG_SR_NEW == "Could not allocate memory for point sR: "
MSG_SR_MUL == "Could not multiply curve point R with signature s: "
MSG_EG_NEW == "Could not allocate memory for point eG: "
MSG_EG_MUL == "Could not multiply curve point R with signature s: "
MSG_U_NEW == "Could not allocate memory for point sR_minus_eG: "
MSG_U_ADD == "Could not calculate point sR_minus_eG: "
MSG_Q_NEW == "Could not allocate memory for point Q: "
\* The source writes the exponent of r^-1 with a superscript minus sign.
MSG_Q_MUL == "Could not multiply curve point sR_minus_eG with r^-1: "
MSG_Q_HEX == "Could convert Q to its hexadecimal value: "

\* strncpy(result.public_key, Q_hex + 2, 263)
PUBLIC_KEY_COPY_LEN == 263

(***************************************************************************)
(* State of one call of key_recovery.                                      *)
(***************************************************************************)
VARIABLES
    pc,          \* position in key_recovery
    args,        \* the arguments as passed by the caller
    l,           \* the local variables (signature_v and data_hash_len are
                 \* the by-value parameters the function overwrites)
    live,        \* the local pointers that point to an object not yet
                 \* released
    freed,       \* the objects released so far, in order
    result,      \* struct key_recovery_result
    trace,       \* the library calls made so far, in order
    fault_at,    \* the position at which the library failed for lack of
                 \* resources, "none" when it did not
    inject,      \* whether the library may fail for lack of resources
    signer,      \* the signer that produced the signature, if one did
    history,     \* the calls that returned before this one, in order, each
                 \* with its arguments and its result
    threads,     \* the frames of the calls that run at the same time
    entry        \* the function the caller called, and with which parameters
                 \* when it was p256_key_recovery

vars ==
    <<pc, args, l, live, freed, result, trace, fault_at, inject, signer,
      history, threads, entry>>

NoSigner == [d |-> 0, k |-> 0]

\* struct key_recovery_result result = {.public_key = {0}, .error_message = {0}}
EmptyResult == [public_key |-> << >>, error_message |-> ""]

InitLocals(a) ==
    [signature_v |-> a.signature_v, data_hash_len |-> a.data_hash_len,
     n |-> 0, r |-> 0, x |-> 0, p |-> 0, e |-> 0, inverse_r |-> 0, s |-> 0,
     R |-> Infinity, nR |-> Infinity, sR |-> Infinity,
     negative_eG |-> Infinity, sR_minus_eG |-> Infinity, Q |-> Infinity,
     Q_hex |-> << >>]

\* The frame of a call: the statements of key_recovery are functions from
\* frame to frame, and the actions below apply them to the variables.
InitFrame(a) ==
    [pc |-> "check_v", args |-> a, l |-> InitLocals(a), live |-> {},
     freed |-> << >>, result |-> EmptyResult, trace |-> << >>,
     fault_at |-> "none"]

Frame ==
    [pc |-> pc, args |-> args, l |-> l, live |-> live, freed |-> freed,
     result |-> result, trace |-> trace, fault_at |-> fault_at]

Become(st) ==
    /\ pc' = st.pc
    /\ l' = st.l
    /\ live' = st.live
    /\ freed' = st.freed
    /\ result' = st.result
    /\ trace' = st.trace
    /\ fault_at' = st.fault_at
    /\ UNCHANGED <<args, inject, signer, history, threads, entry>>

\* The outcomes the library may take for lack of resources.
Faults == IF inject THEN {FALSE, TRUE} ELSE {FALSE}

\* set_error_message(result.error_message, msg)
set_error_message(res, msg) == [res EXCEPT !.error_message = msg]

\* A failed library call op: set_error_message(...); goto end;
GotoEnd(st, msg, fault, op) ==
    [st EXCEPT !.result = set_error_message(@, msg),
               !.pc = "end",
               !.trace = Append(@, op),
               !.fault_at = IF fault THEN st.pc ELSE @]

\* A library call op that succeeded: fall through to the next statement.
Continue(st, next, newl, newlive, op) ==
    [st EXCEPT !.pc = next, !.l = newl, !.live = newlive,
               !.trace = Append(@, op)]

\* A range test in place of the four comparisons.
ValidSignatureV_UpTo28(v) == v <= 28

\* Lines 62-63: the recovery ids the function accepts.
ValidSignatureV(v) == v = 0 \/ v = 1 \/ v = 27 \/ v = 28

\* The conversion of 27 and 28 left out.
CanonicalSignatureV_Kept(v) == v

\* Lines 71-73: Ethereum's 27 and 28 become 0 and 1.
CanonicalSignatureV(v) == IF v = 27 \/ v = 28 THEN v - 27 ELSE v

\* The truncation left out.
TruncatedHashLen_Whole(len, curve_byte_length) == len

\* Lines 77-79: only the left-most curve_byte_length bytes are considered.
TruncatedHashLen(len, curve_byte_length) ==
    IF len > curve_byte_length THEN curve_byte_length ELSE len

\* Lines 62-79: no library call is made here.
CheckSignatureVStep(st) ==
    IF ~ValidSignatureV(st.l.signature_v)
    THEN [st EXCEPT !.result = set_error_message(@, MSG_V), !.pc = "end"]
    ELSE [st EXCEPT
            !.l = [@ EXCEPT
                     !.signature_v = CanonicalSignatureV(st.l.signature_v),
                     !.data_hash_len =
                         TruncatedHashLen(st.l.data_hash_len,
                                          st.args.curve_byte_length)],
            !.pc = "group_new"]

CheckSignatureV ==
    /\ pc = "check_v"
    /\ Become(CheckSignatureVStep(Frame))

\* EC_GROUP_new_by_curve_name(curve_nid): NULL for an unknown curve.
KnownCurve(nid) == nid = NID_X9_62_prime256v1

\* Lines 81-85
GroupNewStep(st, fault) ==
    IF fault \/ ~KnownCurve(st.args.curve_nid)
    THEN GotoEnd(st, MSG_GROUP, fault,
                 "EC_GROUP_new_by_curve_name")
    ELSE Continue(st, "ctx_new",
                  st.l,
                  st.live \cup {"group"},
                  "EC_GROUP_new_by_curve_name")
GroupNew ==
    /\ pc = "group_new"
    /\ \E fault \in Faults : Become(GroupNewStep(Frame, fault))

\* Lines 87-91
CtxNewStep(st, fault) ==
    IF fault
    THEN GotoEnd(st, MSG_CTX, fault,
                 "BN_CTX_new")
    ELSE Continue(st, "p_new",
                  st.l,
                  st.live \cup {"bn_context"},
                  "BN_CTX_new")
CtxNew ==
    /\ pc = "ctx_new"
    /\ \E fault \in Faults : Become(CtxNewStep(Frame, fault))

\* Lines 93-97
PNewStep(st, fault) ==
    IF fault
    THEN GotoEnd(st, MSG_P_NEW, fault,
                 "BN_new")
    ELSE Continue(st, "get_curve",
                  st.l,
                  st.live \cup {"p"},
                  "BN_new")
PNew ==
    /\ pc = "p_new"
    /\ \E fault \in Faults : Become(PNewStep(Frame, fault))

\* Lines 98-102
GetCurveStep(st, fault) ==
    IF fault
    THEN GotoEnd(st, MSG_GET_CURVE, fault,
                 "EC_GROUP_get_curve")
    ELSE Continue(st, "get0_order",
                  [st.l EXCEPT !.p = FieldP],
                  st.live,
                  "EC_GROUP_get_curve")
GetCurve ==
    /\ pc = "get_curve"
    /\ \E fault \in Faults : Become(GetCurveStep(Frame, fault))

\* Lines 106-110: n points into the group and is not owned by the call
GetOrderStep(st, fault) ==
    IF fault
    THEN GotoEnd(st, MSG_ORDER, fault,
                 "EC_GROUP_get0_order")
    ELSE Continue(st, "hex2bn_r",
                  [st.l EXCEPT !.n = OrderN],
                  st.live \cup {"n"},
                  "EC_GROUP_get0_order")
GetOrder ==
    /\ pc = "get0_order"
    /\ \E fault \in Faults : Become(GetOrderStep(Frame, fault))

\* Lines 112-121: parse r, then x = r
Hex2bnRStep(st, fault) ==
    LET parsed == BN_hex2bn(st.args.signature_r_hex)
    IN IF fault \/ parsed.ret = FAILURE
           THEN GotoEnd(st, MSG_R_HEX, fault,
                        "BN_hex2bn")
           ELSE Continue(st, "R_new",
                         [st.l EXCEPT !.r = parsed.val, !.x = parsed.val],
                         st.live \cup {"r", "x"},
                         "BN_hex2bn")
Hex2bnR ==
    /\ pc = "hex2bn_r"
    /\ \E fault \in Faults : Become(Hex2bnRStep(Frame, fault))

\* Lines 129-133
RNewStep(st, fault) ==
    IF fault
    THEN GotoEnd(st, MSG_R_NEW, fault,
                 "EC_POINT_new")
    ELSE Continue(st, "set_compressed",
                  st.l,
                  st.live \cup {"R"},
                  "EC_POINT_new")
RNew ==
    /\ pc = "R_new"
    /\ \E fault \in Faults : Become(RNewStep(Frame, fault))

\* The return value of the decompression ignored.
SetCompressedStep_Unchecked(st, fault) ==
    LET dec == EC_POINT_set_compressed_coordinates(st.l.x, st.l.signature_v)
    IN [Continue(st, "nR_new", [st.l EXCEPT !.R = dec.point], st.live,
                 "EC_POINT_set_compressed_coordinates")
          EXCEPT !.fault_at = IF fault THEN st.pc ELSE @]

\* The iteration of SEC1 4.1.6 step 1: after a failed decompression the
\* next candidate x + n is tried.
SetCompressedStep_Retry(st, fault) ==
    LET dec == EC_POINT_set_compressed_coordinates(st.l.x, st.l.signature_v)
    IN IF fault \/ dec.ret # SUCCESS
           THEN [st EXCEPT !.l.x = @ + st.l.n,
                           !.trace = Append(@, "EC_POINT_set_compressed_coordinates"),
                           !.fault_at = IF fault THEN st.pc ELSE @]
           ELSE Continue(st, "nR_new",
                         [st.l EXCEPT !.R = dec.point],
                         st.live,
                         "EC_POINT_set_compressed_coordinates")

\* The parity argument fixed to 0, whatever the recovery id.
SetCompressedStep_EvenRoot(st, fault) ==
    LET dec == EC_POINT_set_compressed_coordinates(st.l.x, 0)
    IN IF fault \/ dec.ret # SUCCESS
           THEN GotoEnd(st, MSG_COMPRESSED, fault,
                        "EC_POINT_set_compressed_coordinates")
           ELSE Continue(st, "nR_new",
                         [st.l EXCEPT !.R = dec.point],
                         st.live,
                         "EC_POINT_set_compressed_coordinates")

\* Lines 134-139
SetCompressedStep(st, fault) ==
    LET dec == EC_POINT_set_compressed_coordinates(st.l.x, st.l.signature_v)
    IN IF fault \/ dec.ret # SUCCESS
           THEN GotoEnd(st, MSG_COMPRESSED, fault,
                        "EC_POINT_set_compressed_coordinates")
           ELSE Continue(st, "nR_new",
                         [st.l EXCEPT !.R = dec.point],
                         st.live,
                         "EC_POINT_set_compressed_coordinates")
SetCompressed ==
    /\ pc = "set_compressed"
    /\ \E fault \in Faults : Become(SetCompressedStep(Frame, fault))

\* Lines 142-146
NRNewStep(st, fault) ==
    IF fault
    THEN GotoEnd(st, MSG_NR_NEW, fault,
                 "EC_POINT_new")
    ELSE Continue(st, "mul_nR",
                  st.l,
                  st.live \cup {"nR"},
                  "EC_POINT_new")
NRNew ==
    /\ pc = "nR_new"
    /\ \E fault \in Faults : Become(NRNewStep(Frame, fault))

\* The multiplication by the field prime p in place of the order n.
MulNRStep_ByP(st, fault) ==
    IF fault
    THEN GotoEnd(st, MSG_NR_MUL, fault,
                 "EC_POINT_mul")
    ELSE Continue(st, "is_at_infinity",
                  [st.l EXCEPT !.nR = EC_POINT_mul(st.l.R, st.l.p)],
                  st.live,
                  "EC_POINT_mul")

\* Lines 147-151
MulNRStep(st, fault) ==
    IF fault
    THEN GotoEnd(st, MSG_NR_MUL, fault,
                 "EC_POINT_mul")
    ELSE Continue(st, "is_at_infinity",
                  [st.l EXCEPT !.nR = EC_POINT_mul(st.l.R, st.l.n)],
                  st.live,
                  "EC_POINT_mul")
MulNR ==
    /\ pc = "mul_nR"
    /\ \E fault \in Faults : Become(MulNRStep(Frame, fault))

\* Lines 152-156
IsAtInfinityStep(st, fault) ==
    IF EC_POINT_is_at_infinity(st.l.nR) = 0
    THEN GotoEnd(st, MSG_NR_INF, fault,
                 "EC_POINT_is_at_infinity")
    ELSE Continue(st, "bin2bn_e",
                  st.l,
                  st.live,
                  "EC_POINT_is_at_infinity")
IsAtInfinity ==
    /\ pc = "is_at_infinity"
    /\ Become(IsAtInfinityStep(Frame, FALSE))

\* The signature's s parsed right after the digest conversion, before the
\* inverse of r.
Bin2bnEStep_ThenS(st, fault) ==
    IF fault
    THEN GotoEnd(st, MSG_E, fault,
                 "BN_bin2bn")
    ELSE Continue(st, "hex2bn_s",
                  [st.l EXCEPT !.e = BN_bin2bn(st.args.data_hash, st.l.data_hash_len)],
                  st.live \cup {"e"},
                  "BN_bin2bn")

\* The digest reduced modulo the order when it is converted.
Bin2bnEStep_Reduced(st, fault) ==
    IF fault
    THEN GotoEnd(st, MSG_E, fault,
                 "BN_bin2bn")
    ELSE Continue(st, "mod_inverse",
                  [st.l EXCEPT !.e = BN_bin2bn(st.args.data_hash, st.l.data_hash_len) % st.l.n],
                  st.live \cup {"e"},
                  "BN_bin2bn")

\* An empty digest taken for a failed conversion.
Bin2bnEStep_NonEmpty(st, fault) ==
    IF fault \/ st.l.data_hash_len = 0
    THEN GotoEnd(st, MSG_E, fault,
                 "BN_bin2bn")
    ELSE Continue(st, "mod_inverse",
                  [st.l EXCEPT !.e = BN_bin2bn(st.args.data_hash, st.l.data_hash_len)],
                  st.live \cup {"e"},
                  "BN_bin2bn")

\* Lines 159-163
Bin2bnEStep(st, fault) ==
    IF fault
    THEN GotoEnd(st, MSG_E, fault,
                 "BN_bin2bn")
    ELSE Continue(st, "mod_inverse",
                  [st.l EXCEPT !.e = BN_bin2bn(st.args.data_hash, st.l.data_hash_len)],
                  st.live \cup {"e"},
                  "BN_bin2bn")
Bin2bnE ==
    /\ pc = "bin2bn_e"
    /\ \E fault \in Faults : Become(Bin2bnEStep(Frame, fault))

\* The NULL returned for a value without inverse ignored.
ModInverseStep_Unchecked(st, fault) ==
    LET inv == BN_mod_inverse(st.l.r, st.l.n)
    IN [Continue(st, "hex2bn_s", [st.l EXCEPT !.inverse_r = inv.val],
                 st.live \cup {"inverse_r"}, "BN_mod_inverse")
          EXCEPT !.fault_at = IF fault THEN st.pc ELSE @]

\* Lines 170-174
ModInverseStep(st, fault) ==
    LET inv == BN_mod_inverse(st.l.r, st.l.n)
    IN IF fault \/ ~inv.ok
           THEN GotoEnd(st, MSG_INVERSE, fault,
                        "BN_mod_inverse")
           ELSE Continue(st, "hex2bn_s",
                         [st.l EXCEPT !.inverse_r = inv.val],
                         st.live \cup {"inverse_r"},
                         "BN_mod_inverse")
ModInverse ==
    /\ pc = "mod_inverse"
    /\ \E fault \in Faults : Become(ModInverseStep(Frame, fault))

\* Lines 177-181
Hex2bnSStep(st, fault) ==
    LET parsed == BN_hex2bn(st.args.signature_s_hex)
    IN IF fault \/ parsed.ret = FAILURE
           THEN GotoEnd(st, MSG_S_HEX, fault,
                        "BN_hex2bn")
           ELSE Continue(st, "sR_new",
                         [st.l EXCEPT !.s = parsed.val],
                         st.live \cup {"s"},
                         "BN_hex2bn")
Hex2bnS ==
    /\ pc = "hex2bn_s"
    /\ \E fault \in Faults : Become(Hex2bnSStep(Frame, fault))

\* Lines 182-186
SRNewStep(st, fault) ==
    IF fault
    THEN GotoEnd(st, MSG_SR_NEW, fault,
                 "EC_POINT_new")
    ELSE Continue(st, "mul_sR",
                  st.l,
                  st.live \cup {"sR"},
                  "EC_POINT_new")
SRNew ==
    /\ pc = "sR_new"
    /\ \E fault \in Faults : Become(SRNewStep(Frame, fault))

\* Lines 187-191
MulSRStep(st, fault) ==
    IF fault
    THEN GotoEnd(st, MSG_SR_MUL, fault,
                 "EC_POINT_mul")
    ELSE Continue(st, "set_negative",
                  [st.l EXCEPT !.sR = EC_POINT_mul(st.l.R, st.l.s)],
                  st.live,
                  "EC_POINT_mul")
MulSR ==
    /\ pc = "mul_sR"
    /\ \E fault \in Faults : Become(MulSRStep(Frame, fault))

\* The negation of e left out.
SetNegativeStep_Omitted(st) ==
    [st EXCEPT !.pc = "eG_new",
               !.trace = Append(@, "BN_set_negative")]

\* Line 194: BN_set_negative(e, 1) cannot fail.
SetNegativeStep(st) ==
    [st EXCEPT !.l = [@ EXCEPT !.e = BN_set_negative(st.l.e)],
               !.pc = "eG_new",
               !.trace = Append(@, "BN_set_negative")]

SetNegative ==
    /\ pc = "set_negative"
    /\ Become(SetNegativeStep(Frame))

\* Lines 195-199
EGNewStep(st, fault) ==
    IF fault
    THEN GotoEnd(st, MSG_EG_NEW, fault,
                 "EC_POINT_new")
    ELSE Continue(st, "mul_eG",
                  st.l,
                  st.live \cup {"negative_eG"},
                  "EC_POINT_new")
EGNew ==
    /\ pc = "eG_new"
    /\ \E fault \in Faults : Become(EGNewStep(Frame, fault))

\* The return value of the multiplication ignored.
MulEGStep_Unchecked(st, fault) ==
    [Continue(st, "U_new",
              [st.l EXCEPT !.negative_eG = EC_POINT_mul(Generator, st.l.e)],
              st.live, "EC_POINT_mul")
       EXCEPT !.fault_at = IF fault THEN st.pc ELSE @]

\* Lines 200-204
MulEGStep(st, fault) ==
    IF fault
    THEN GotoEnd(st, MSG_EG_MUL, fault,
                 "EC_POINT_mul")
    ELSE Continue(st, "U_new",
                  [st.l EXCEPT !.negative_eG = EC_POINT_mul(Generator, st.l.e)],
                  st.live,
                  "EC_POINT_mul")
MulEG ==
    /\ pc = "mul_eG"
    /\ \E fault \in Faults : Become(MulEGStep(Frame, fault))

\* Lines 207-211
UNewStep(st, fault) ==
    IF fault
    THEN GotoEnd(st, MSG_U_NEW, fault,
                 "EC_POINT_new")
    ELSE Continue(st, "add_U",
                  st.l,
                  st.live \cup {"sR_minus_eG"},
                  "EC_POINT_new")
UNew ==
    /\ pc = "U_new"
    /\ \E fault \in Faults : Become(UNewStep(Frame, fault))

\* Lines 212-217
AddUStep(st, fault) ==
    IF fault
    THEN GotoEnd(st, MSG_U_ADD, fault,
                 "EC_POINT_add")
    ELSE Continue(st, "Q_new",
                  [st.l EXCEPT !.sR_minus_eG = EC_POINT_add(st.l.sR, st.l.negative_eG)],
                  st.live,
                  "EC_POINT_add")
AddU ==
    /\ pc = "add_U"
    /\ \E fault \in Faults : Become(AddUStep(Frame, fault))

\* Lines 220-224
QNewStep(st, fault) ==
    IF fault
    THEN GotoEnd(st, MSG_Q_NEW, fault,
                 "EC_POINT_new")
    ELSE Continue(st, "mul_Q",
                  st.l,
                  st.live \cup {"Q"},
                  "EC_POINT_new")
QNew ==
    /\ pc = "Q_new"
    /\ \E fault \in Faults : Become(QNewStep(Frame, fault))

\* Lines 225-230
MulQStep(st, fault) ==
    IF fault
    THEN GotoEnd(st, MSG_Q_MUL, fault,
                 "EC_POINT_mul")
    ELSE Continue(st, "point2hex",
                  [st.l EXCEPT !.Q = EC_POINT_mul(st.l.sR_minus_eG, st.l.inverse_r)],
                  st.live,
                  "EC_POINT_mul")
MulQ ==
    /\ pc = "mul_Q"
    /\ \E fault \in Faults : Become(MulQStep(Frame, fault))

\* Lines 232-237
Point2hexStep(st, fault) ==
    IF fault
    THEN GotoEnd(st, MSG_Q_HEX, fault,
                 "EC_POINT_point2hex")
    ELSE Continue(st, "copy",
                  [st.l EXCEPT !.Q_hex = EC_POINT_point2hex(st.l.Q)],
                  st.live \cup {"Q_hex"},
                  "EC_POINT_point2hex")
Point2hex ==
    /\ pc = "point2hex"
    /\ \E fault \in Faults : Become(Point2hexStep(Frame, fault))
\* strncpy(dest, src, count): the characters of src, at most count of them.
strncpy(src, count) ==
    IF Len(src) > count THEN SubSeq(src, 1, count) ELSE src

\* Q_hex + 2: the string after its first two characters.
AfterFormatIdentifier(hex) == SubSeq(hex, 3, Len(hex))

\* Lines 239-242
CopyPublicKeyStep(st) ==
    [st EXCEPT !.result =
                 [@ EXCEPT !.public_key =
                     strncpy(AfterFormatIdentifier(st.l.Q_hex),
                             PUBLIC_KEY_COPY_LEN)],
               !.pc = "end"]

CopyPublicKey ==
    /\ pc = "copy"
    /\ Become(CopyPublicKeyStep(Frame))

\* The release calls with BN_free(x) added after BN_free(r).
Releases_AndX ==
    <<"group", "bn_context", "p", "r", "x", "s", "e", "inverse_r", "R", "nR",
      "negative_eG", "sR", "Q", "sR_minus_eG", "Q_hex">>

\* The release calls at the end label, in the order of the source; the
\* argument of each is the local pointer it is given.
Releases ==
    <<"group", "bn_context", "p", "r", "s", "e", "inverse_r", "R", "nR",
      "negative_eG", "sR", "Q", "sR_minus_eG", "Q_hex">>

\* The object a local pointer points to: x = r (line 118) makes x point to
\* the object of r, and EC_GROUP_get0_order (line 106) makes n point into
\* the group.
ObjectOf(v) ==
    CASE v = "x" -> "r"
      [] v = "n" -> "group"
      [] OTHER -> v

\* The objects the release calls release: a release of a NULL pointer
\* releases nothing.
Released(lv) ==
    LET given == SelectSeq(Releases, LAMBDA v : v \in lv)
    IN  [i \in 1..Len(given) |-> ObjectOf(given[i])]

\* Lines 244-260: every release, then return result.  A pointer to a
\* released object points to nothing.
EndStep(st) ==
    LET gone == Released(st.live)
    IN  [st EXCEPT !.pc = "done",
                   !.freed = @ \o gone,
                   !.live = {v \in @ : \A i \in 1..Len(gone) :
                                          gone[i] # ObjectOf(v)},
                   !.trace = @ \o [i \in 1..Len(Releases) |-> "free"]]

End ==
    /\ pc = "end"
    /\ Become(EndStep(Frame))

Next ==
    \/ CheckSignatureV
    \/ GroupNew
    \/ CtxNew
    \/ PNew
    \/ GetCurve
    \/ GetOrder
    \/ Hex2bnR
    \/ RNew
    \/ SetCompressed
    \/ NRNew
    \/ MulNR
    \/ IsAtInfinity
    \/ Bin2bnE
    \/ ModInverse
    \/ Hex2bnS
    \/ SRNew
    \/ MulSR
    \/ SetNegative
    \/ EGNew
    \/ MulEG
    \/ UNew
    \/ AddU
    \/ QNew
    \/ MulQ
    \/ Point2hex
    \/ CopyPublicKey
    \/ End

(***************************************************************************)
(* key_recovery as a function of its arguments: the statements above run   *)
(* from the first to the return, the library never failing for lack of     *)
(* resources.                                                              *)
(***************************************************************************)
Exec(st) ==
    CASE st.pc = "check_v" -> CheckSignatureVStep(st)
      [] st.pc = "group_new" -> GroupNewStep(st, FALSE)
      [] st.pc = "ctx_new" -> CtxNewStep(st, FALSE)
      [] st.pc = "p_new" -> PNewStep(st, FALSE)
      [] st.pc = "get_curve" -> GetCurveStep(st, FALSE)
      [] st.pc = "get0_order" -> GetOrderStep(st, FALSE)
      [] st.pc = "hex2bn_r" -> Hex2bnRStep(st, FALSE)
      [] st.pc = "R_new" -> RNewStep(st, FALSE)
      [] st.pc = "set_compressed" -> SetCompressedStep(st, FALSE)
      [] st.pc = "nR_new" -> NRNewStep(st, FALSE)
      [] st.pc = "mul_nR" -> MulNRStep(st, FALSE)
      [] st.pc = "is_at_infinity" -> IsAtInfinityStep(st, FALSE)
      [] st.pc = "bin2bn_e" -> Bin2bnEStep(st, FALSE)
      [] st.pc = "mod_inverse" -> ModInverseStep(st, FALSE)
      [] st.pc = "hex2bn_s" -> Hex2bnSStep(st, FALSE)
      [] st.pc = "sR_new" -> SRNewStep(st, FALSE)
      [] st.pc = "mul_sR" -> MulSRStep(st, FALSE)
      [] st.pc = "set_negative" -> SetNegativeStep(st)
      [] st.pc = "eG_new" -> EGNewStep(st, FALSE)
      [] st.pc = "mul_eG" -> MulEGStep(st, FALSE)
      [] st.pc = "U_new" -> UNewStep(st, FALSE)
      [] st.pc = "add_U" -> AddUStep(st, FALSE)
      [] st.pc = "Q_new" -> QNewStep(st, FALSE)
      [] st.pc = "mul_Q" -> MulQStep(st, FALSE)
      [] st.pc = "point2hex" -> Point2hexStep(st, FALSE)
      [] st.pc = "copy" -> CopyPublicKeyStep(st)
      [] st.pc = "end" -> EndStep(st)

RECURSIVE Run(_)
Run(st) == IF st.pc = "done" THEN st ELSE Run(Exec(st))

key_recovery(a) == Run(InitFrame(a)).result

(***************************************************************************)
(* The inputs explored.                                                    *)
(***************************************************************************)
\* Digest bytes: 0, 1 and OrderN + 1 (congruent to 1 modulo the order).
DigestBytes == {0, 1, OrderN + 1}

RECURSIVE SeqsUpTo(_, _)
SeqsUpTo(S, len) ==
    IF len = 0 THEN {<< >>}
    ELSE LET shorter == SeqsUpTo(S, len - 1)
         IN shorter \cup {Append(q, b) : q \in {w \in shorter : Len(w) = len - 1},
                                          b \in S}

Digests == SeqsUpTo(DigestBytes, MaxHashLen)

\* r as the caller may pass it: zero, x-coordinates on and off the curve,
\* values at and above the order and the field prime, a negative value,
\* strings without a digit and a string with a trailing non-digit.
RHexInputs ==
    {<<"0">>, <<"1">>, <<"2">>, <<"0", "2">>, <<"B">>, <<"D", "B">>,
     <<"e", "5">>, <<"f", "0">>, <<"f", "d">>, <<"-", "2">>, <<"-", "b">>,
     << >>, <<"g">>, <<"2", "g">>}

SHexInputs ==
    {<<"0">>, <<"1">>, <<"2">>, <<"7", "3">>, <<"e", "5">>, <<"e", "6">>,
     <<"-", "1">>, << >>, <<"g">>}

SignatureVInputs == {0, 1, 2, 5, 27, 28, 29}

CurveNidInputs == {NID_X9_62_prime256v1, NID_undef}

Call(hash, r_hex, s_hex, v, nid) ==
    [data_hash |-> hash, data_hash_len |-> Len(hash),
     signature_r_hex |-> r_hex, signature_s_hex |-> s_hex,
     signature_v |-> v, curve_nid |-> nid,
     curve_byte_length |-> CURVE_BYTE_LENGTH]

\* The low bit of the recovery id passed on in place of the id.
p256_key_recovery_LowBit(hash, r_hex, s_hex, v) ==
    Call(hash, r_hex, s_hex, v % 2, NID_X9_62_prime256v1)

\* p256_key_recovery: the fixed curve and its byte length.
p256_key_recovery(hash, r_hex, s_hex, v) ==
    Call(hash, r_hex, s_hex, v, NID_X9_62_prime256v1)

(***************************************************************************)
(* A compliant ECDSA signer with private key d and ephemeral key k.        *)
(***************************************************************************)
\* BN_bn2hex: two upper-case digits per byte, "0" for zero.
RECURSIVE BytesOf(_)
BytesOf(v) == IF v = 0 THEN << >> ELSE Append(BytesOf(v \div 256), v % 256)

BN_bn2hex(v) == IF v = 0 THEN <<"0">> ELSE OPENSSL_buf2hexstr(BytesOf(v))

\* The digest integer of the signer: the left-most bits of the digest, as
\* many as the order has (8 * CURVE_BYTE_LENGTH).
SignerE(hash) ==
    BN_bin2bn(hash, IF Len(hash) > CURVE_BYTE_LENGTH
                    THEN CURVE_BYTE_LENGTH ELSE Len(hash))

EphemeralPoint(k) == EC_POINT_mul(Generator, k)

SignR(k) == EphemeralPoint(k)[1] % OrderN

SignS(d, k, hash) ==
    (BN_mod_inverse(k, OrderN).val * (SignerE(hash) + d * SignR(k))) % OrderN

\* The signer starts over with another k when r or s is zero.
SignatureIssued(d, k, hash) == SignR(k) # 0 /\ SignS(d, k, hash) # 0

PublicKeyOf(d) == EC_POINT_mul(Generator, d)

\* The recovery id of a signature: the parity of the y-coordinate of the
\* ephemeral point.
RecoveryIdOf(k) == EphemeralPoint(k)[2] % 2

InitCall(a) ==
    /\ pc = "check_v"
    /\ args = a
    /\ l = InitLocals(a)
    /\ live = {}
    /\ freed = << >>
    /\ result = EmptyResult
    /\ trace = << >>
    /\ fault_at = "none"
    /\ history = << >>
    /\ threads = << >>

\* The caller called key_recovery itself.
Direct ==
    [via |-> "key_recovery", data_hash |-> << >>, signature_r_hex |-> << >>,
     signature_s_hex |-> << >>, signature_v |-> 0]

\* The caller called p256_key_recovery with these parameters.
ViaP256(hash, r_hex, s_hex, v) ==
    [via |-> "p256_key_recovery", data_hash |-> hash,
     signature_r_hex |-> r_hex, signature_s_hex |-> s_hex,
     signature_v |-> v]

\* Any caller.
InitAny ==
    /\ \E hash \in Digests, r_hex \in RHexInputs, s_hex \in SHexInputs,
          v \in SignatureVInputs, nid \in CurveNidInputs :
         InitCall(Call(hash, r_hex, s_hex, v, nid))
    /\ inject \in BOOLEAN
    /\ signer = NoSigner
    /\ entry = Direct

\* A caller that passes a signature a compliant signer issued, with each of
\* the accepted recovery ids.
InitSigned ==
    /\ \E d \in 1..MaxD, k \in 1..MaxK, hash \in Digests,
          v \in {0, 1, 27, 28} :
         /\ SignatureIssued(d, k, hash)
         /\ signer = [d |-> d, k |-> k]
         /\ InitCall(p256_key_recovery(hash, BN_bn2hex(SignR(k)),
                                       BN_bn2hex(SignS(d, k, hash)), v))
         /\ entry = ViaP256(hash, BN_bn2hex(SignR(k)),
                            BN_bn2hex(SignS(d, k, hash)), v)
    /\ inject = FALSE

\* A caller that passes a curve_byte_length above the byte length of the
\* field, so that digests of more than one byte are not truncated.
WideByteLength == CURVE_BYTE_LENGTH + 1

InitWide ==
    /\ \E hash \in Digests, r_hex \in {<<"2">>, <<"D", "B">>},
          s_hex \in {<<"1">>, <<"2">>, <<"7", "3">>}, v \in {0, 1} :
         InitCall([Call(hash, r_hex, s_hex, v, NID_X9_62_prime256v1)
                      EXCEPT !.curve_byte_length = WideByteLength])
    /\ inject = FALSE
    /\ signer = NoSigner
    /\ entry = Direct

\* A caller of p256_key_recovery, with any parameters.
InitP256 ==
    /\ \E hash \in Digests, r_hex \in RHexInputs, s_hex \in SHexInputs,
          v \in SignatureVInputs :
         /\ InitCall(p256_key_recovery(hash, r_hex, s_hex, v))
         /\ entry = ViaP256(hash, r_hex, s_hex, v)
    /\ inject = FALSE
    /\ signer = NoSigner

Init == InitAny \/ InitSigned \/ InitWide \/ InitP256

Spec == Init /\ [][Next]_vars


(***************************************************************************)
(* Vocabulary of the properties.                                           *)
(***************************************************************************)
Done == pc = "done"

NoFault == fault_at = "none"

Failed(msg) == result.error_message = msg /\ result.public_key = << >>

ReturnedKey == result.error_message = "" /\ result.public_key # << >>

\* The x-coordinates of the affine points of the curve.
XCoordinates ==
    {x \in 0..(FieldP - 1) :
        \E y \in 0..(FieldP - 1) : (y * y) % FieldP = CurveRhs(x)}

\* X || Y of an affine point as key_recovery returns it.
PublicKeyHex(P) ==
    OPENSSL_buf2hexstr(BN_bn2binpad(P[1], FieldLen))
        \o OPENSSL_buf2hexstr(BN_bn2binpad(P[2], FieldLen))

Signed == signer # NoSigner

SignerKey == PublicKeyHex(PublicKeyOf(signer.d))

OnlyReleases(calls) == \A i \in 1..Len(calls) : calls[i] = "free"

(***************************************************************************)
(* C1: called with a signature a compliant signer issued and the parity    *)
(* of the signer's ephemeral point as recovery id, key_recovery returns    *)
(* the encoding of the signer's public key d*G and no error.               *)
(***************************************************************************)
C1_SignerKeyRecovered ==
    (Signed /\ Done
       /\ CanonicalSignatureV(args.signature_v) = RecoveryIdOf(signer.k))
    => (result.error_message = "" /\ result.public_key = SignerKey)

\* The same, for the signatures whose ephemeral point has an x-coordinate
\* below the group order, so that r is that x-coordinate itself.
RecoveredWhenXBelowOrder ==
    (Signed /\ Done
       /\ EphemeralPoint(signer.k)[1] < OrderN
       /\ CanonicalSignatureV(args.signature_v) = RecoveryIdOf(signer.k))
    => (result.error_message = "" /\ result.public_key = SignerKey)

(***************************************************************************)
(* C2: a recovery id outside {0, 1, 27, 28} gives the invalid-recovery-id  *)
(* error whatever the other arguments are, and the call gets there         *)
(* without any library call: the only calls it makes are the releases at   *)
(* the exit, of pointers that are all NULL.                                *)
(***************************************************************************)
C2_InvalidRecoveryId ==
    (args.signature_v \notin {0, 1, 27, 28})
    => /\ pc \in {"check_v", "end", "done"}
       /\ live = {}
       /\ l = InitLocals(args)
       /\ pc = "check_v" => (trace = << >> /\ result = EmptyResult)
       /\ pc = "end" => (trace = << >> /\ Failed(MSG_V))
       /\ pc = "done" => (OnlyReleases(trace) /\ Failed(MSG_V))

C2_Witness ==
    /\ Done
    /\ args.signature_v = 5
    /\ BN_hex2bn(args.signature_r_hex).ret = FAILURE
    /\ BN_hex2bn(args.signature_s_hex).ret = FAILURE
    /\ args.curve_nid = NID_undef
    /\ Failed(MSG_V)

(***************************************************************************)
(* C3: recovery id 27 gives the result of recovery id 0 and 28 that of 1,  *)
(* the other arguments being equal; 0 and 1 are used as they are.          *)
(***************************************************************************)
C3_EthereumRecoveryIds ==
    /\ (Done /\ NoFault /\ args.signature_v \in {27, 28})
       => result = key_recovery([args EXCEPT !.signature_v = @ - 27])
    /\ (pc # "check_v" /\ args.signature_v \in {27, 28})
       => l.signature_v = args.signature_v - 27
    /\ (args.signature_v \in {0, 1}) => l.signature_v = args.signature_v

C3_Witness ==
    /\ Done
    /\ NoFault
    /\ args.signature_v = 27
    /\ ReturnedKey
    /\ result = key_recovery([args EXCEPT !.signature_v = 0])
    /\ result # key_recovery([args EXCEPT !.signature_v = 1])

(***************************************************************************)
(* C4 as stated: whenever r is not the x-coordinate of a point of the      *)
(* curve, the call returns the invalid-point error, for every s, digest    *)
(* and recovery id.                                                        *)
(***************************************************************************)
RParsed == BN_hex2bn(args.signature_r_hex)

C5_Original ==
    (Done /\ NoFault /\ KnownCurve(args.curve_nid)
       /\ args.signature_r_hex = <<"0">>)
    => Failed(MSG_INVERSE)

(***************************************************************************)
(* C5 amended: with r = "0" and a recovery id in {0, 1, 27, 28} the call   *)
(* fails with the no-inverse error and returns no key, for any s and any   *)
(* digest, unless the library fails for lack of resources (0 is the        *)
(* x-coordinate of a point of the curve, so decompression succeeds).       *)
(***************************************************************************)
C5_NoInverse ==
    (Done /\ NoFault /\ KnownCurve(args.curve_nid)
       /\ ValidSignatureV(args.signature_v)
       /\ args.signature_r_hex = <<"0">>)
    => Failed(MSG_INVERSE)

C5_Witness ==
    /\ Done
    /\ NoFault
    /\ args.signature_r_hex = <<"0">>
    /\ args.signature_v = 28
    /\ BN_hex2bn(args.signature_s_hex).ret = FAILURE
    /\ Failed(MSG_INVERSE)

(***************************************************************************)
(* C6: a digest longer than curve_byte_length gives the result of its      *)
(* left-most curve_byte_length bytes, the other arguments being equal.     *)
(***************************************************************************)
TruncatedArgs(a) ==
    [a EXCEPT !.data_hash = SubSeq(@, 1, a.curve_byte_length),
              !.data_hash_len = a.curve_byte_length]

C6_DigestTruncation ==
    (Done /\ NoFault /\ args.data_hash_len > args.curve_byte_length)
    => result = key_recovery(TruncatedArgs(args))

C6_Witness ==
    /\ Done
    /\ NoFault
    /\ args.data_hash_len > args.curve_byte_length
    /\ args.data_hash[args.data_hash_len] # 0
    /\ ReturnedKey
    /\ result = key_recovery(TruncatedArgs(args))

(***************************************************************************)
(* C7: for a signature a compliant signer issued, exactly one of the calls *)
(* with recovery id 0 and with recovery id 1 returns the signer's public   *)
(* key.                                                                    *)
(***************************************************************************)
ReturnsSignerKey(res) ==
    res.error_message = "" /\ res.public_key = SignerKey

C7_ExactlyOneId ==
    (Signed /\ Done /\ args.signature_v \in {0, 1})
    => LET other == key_recovery([args EXCEPT !.signature_v = 1 - @])
       IN ReturnsSignerKey(result) # ReturnsSignerKey(other)

\* The same, for the signatures whose ephemeral point has an x-coordinate
\* below the group order.
ExactlyOneIdWhenXBelowOrder ==
    (Signed /\ Done /\ args.signature_v \in {0, 1}
       /\ EphemeralPoint(signer.k)[1] < OrderN)
    => LET other == key_recovery([args EXCEPT !.signature_v = 1 - @])
       IN ReturnsSignerKey(result) # ReturnsSignerKey(other)

(***************************************************************************)
(* C8: a call that reports no error returns the hexadecimal string X || Y  *)
(* of an affine point of the curve, of 4 * curve_byte_length characters.   *)
(***************************************************************************)
AffinePoints ==
    {P \in (0..(FieldP - 1)) \X (0..(FieldP - 1)) : EC_POINT_is_on_curve(P)}

C8_KeyIsEncodedPoint ==
    (Done /\ result.error_message = "")
    => /\ Len(result.public_key) = 4 * args.curve_byte_length
       /\ \E P \in AffinePoints : result.public_key = PublicKeyHex(P)

(***************************************************************************)
(* C9: a call returns either an error message and an empty public key, or  *)
(* a public key and an empty error message; never both empty, never both   *)
(* set.                                                                    *)
(***************************************************************************)
C9_OneOfTwoShapes ==
    Done => \/ (result.error_message # "" /\ result.public_key = << >>)
            \/ (result.error_message = "" /\ result.public_key # << >>)


(***************************************************************************)
(* C10: every fallible library call of key_recovery has its failure        *)
(* checked.  A step in which the call fails records the error of that      *)
(* call site and goes to the exit with the locals as they were, having     *)
(* made that call once; an error is only ever present at the exit; and     *)
(* the step at the exit makes the releases only and returns the result as  *)
(* it was recorded.                                                        *)
(***************************************************************************)
\* The fallible call of each position and the error recorded for it.
CallSites ==
    [group_new      |-> [op |-> "EC_GROUP_new_by_curve_name", msg |-> MSG_GROUP],
     ctx_new        |-> [op |-> "BN_CTX_new", msg |-> MSG_CTX],
     p_new          |-> [op |-> "BN_new", msg |-> MSG_P_NEW],
     get_curve      |-> [op |-> "EC_GROUP_get_curve", msg |-> MSG_GET_CURVE],
     get0_order     |-> [op |-> "EC_GROUP_get0_order", msg |-> MSG_ORDER],
     hex2bn_r       |-> [op |-> "BN_hex2bn", msg |-> MSG_R_HEX],
     R_new          |-> [op |-> "EC_POINT_new", msg |-> MSG_R_NEW],
     set_compressed |-> [op |-> "EC_POINT_set_compressed_coordinates",
                         msg |-> MSG_COMPRESSED],
     nR_new         |-> [op |-> "EC_POINT_new", msg |-> MSG_NR_NEW],
     mul_nR         |-> [op |-> "EC_POINT_mul", msg |-> MSG_NR_MUL],
     is_at_infinity |-> [op |-> "EC_POINT_is_at_infinity", msg |-> MSG_NR_INF],
     bin2bn_e       |-> [op |-> "BN_bin2bn", msg |-> MSG_E],
     mod_inverse    |-> [op |-> "BN_mod_inverse", msg |-> MSG_INVERSE],
     hex2bn_s       |-> [op |-> "BN_hex2bn", msg |-> MSG_S_HEX],
     sR_new         |-> [op |-> "EC_POINT_new", msg |-> MSG_SR_NEW],
     mul_sR         |-> [op |-> "EC_POINT_mul", msg |-> MSG_SR_MUL],
     eG_new         |-> [op |-> "EC_POINT_new", msg |-> MSG_EG_NEW],
     mul_eG         |-> [op |-> "EC_POINT_mul", msg |-> MSG_EG_MUL],
     U_new          |-> [op |-> "EC_POINT_new", msg |-> MSG_U_NEW],
     add_U          |-> [op |-> "EC_POINT_add", msg |-> MSG_U_ADD],
     Q_new          |-> [op |-> "EC_POINT_new", msg |-> MSG_Q_NEW],
     mul_Q          |-> [op |-> "EC_POINT_mul", msg |-> MSG_Q_MUL],
     point2hex      |-> [op |-> "EC_POINT_point2hex", msg |-> MSG_Q_HEX]]

FalliblePositions == DOMAIN CallSites

\* The failures that come from the arguments rather than from a lack of
\* resources.
ArgumentFailure ==
    CASE pc = "group_new" -> ~KnownCurve(args.curve_nid)
      [] pc = "hex2bn_r" -> BN_hex2bn(args.signature_r_hex).ret = FAILURE
      [] pc = "set_compressed" ->
            (l.x % FieldP) \notin XCoordinates
      [] pc = "is_at_infinity" -> l.nR # Infinity
      [] pc = "mod_inverse" -> l.r % OrderN = 0
      [] pc = "hex2bn_s" -> BN_hex2bn(args.signature_s_hex).ret = FAILURE
      [] OTHER -> FALSE

CallFails == fault_at' # fault_at \/ ArgumentFailure

C10_Step ==
    /\ (pc \in FalliblePositions /\ CallFails)
       => /\ pc' = "end"
          /\ result' = [public_key |-> << >>,
                        error_message |-> CallSites[pc].msg]
          /\ trace' = Append(trace, CallSites[pc].op)
          /\ l' = l
          /\ live' = live
    /\ (pc \in FalliblePositions /\ ~CallFails)
       => /\ pc' \notin {"end", "done"}
          /\ result' = EmptyResult
    /\ result.error_message # "" => pc \in {"end", "done"}
    /\ pc = "end"
       => /\ pc' = "done"
          /\ result' = result
          /\ l' = l
          /\ Len(trace') = Len(trace) + Len(Releases)
          /\ \A i \in 1..Len(trace') :
               IF i <= Len(trace) THEN trace'[i] = trace[i]
               ELSE trace'[i] = "free"

C10_FailuresChecked == [][C10_Step]_vars

\* The multiplication by the negated digest fails for lack of resources,
\* after eighteen library calls succeeded.
C10_Witness ==
    /\ Done
    /\ fault_at = "mul_eG"
    /\ Failed(MSG_EG_MUL)
    /\ l.Q = Infinity
    /\ l.sR # Infinity
    /\ Len(trace) = 19 + Len(Releases)

(***************************************************************************)
(* C11: on every exit path every object the call acquired is released      *)
(* exactly once at the end label: none is left unreleased, none is         *)
(* released twice, x and n are not released on their own (x points to the  *)
(* object of r, n into the group), nothing is released before the end      *)
(* label, and no statement runs after the releases but the return.         *)
(***************************************************************************)
Occurrences(seq, o) == Cardinality({i \in 1..Len(seq) : seq[i] = o})

Acquired(lv) == {ObjectOf(v) : v \in lv}

C11_Step ==
    /\ pc' # "done" => (freed' = << >> /\ live \subseteq live')
    /\ pc' = "done"
       => /\ pc = "end"
          /\ live' = {}
          /\ \A o \in Acquired(live) : Occurrences(freed', o) = 1
          /\ \A i \in 1..Len(freed') : freed'[i] \in Acquired(live)
          /\ result' = result

C11_ReleasedOnce == [][C11_Step]_vars

\* A call that returned a key and released the fourteen objects it had
\* acquired, x and n having pointed into two of them.
C11_Witness ==
    /\ Done
    /\ ReturnedKey
    /\ freed = Releases
    /\ live = {}
    /\ Occurrences(freed, "r") = 1
    /\ Occurrences(freed, "group") = 1

(***************************************************************************)
(* Calls of key_recovery that run at the same time, their statements       *)
(* interleaved in any order.                                               *)
(***************************************************************************)
NCalls == 2

\* The arguments of the calls that run at the same time: two that return
\* different keys, one whose r has no inverse, one whose r does not parse.
ConcurrentArgs ==
    {p256_key_recovery(<<1>>, <<"2">>, <<"1">>, 0),
     p256_key_recovery(<<1>>, <<"2">>, <<"2">>, 27),
     p256_key_recovery(<< >>, <<"0">>, <<"1">>, 28),
     p256_key_recovery(<<1>>, <<"g">>, <<"1">>, 1)}

\* One result structure of static storage, shared by the calls.
ResultStorage_Static(i) == 1

\* Line 51: result is an automatic variable, so is every other local
\* (lines 52-60): each call has its own.
ResultStorage(i) == i

\* One statement of call i.
ThreadStep(i) ==
    /\ threads[i].pc # "done"
    /\ LET slot == ResultStorage(i)
           st == Exec([threads[i] EXCEPT !.result = threads[slot].result])
       IN  threads' = [[threads EXCEPT ![i] = st]
                          EXCEPT ![slot].result = st.result]
    /\ UNCHANGED <<pc, args, l, live, freed, result, trace, fault_at, inject,
                   signer, history, entry>>

InitConcurrent ==
    /\ threads \in [1..NCalls -> {InitFrame(a) : a \in ConcurrentArgs}]
    /\ pc = "done"
    /\ args = threads[1].args
    /\ l = InitLocals(args)
    /\ live = {}
    /\ freed = << >>
    /\ result = EmptyResult
    /\ trace = << >>
    /\ fault_at = "none"
    /\ inject = FALSE
    /\ signer = NoSigner
    /\ history = << >>
    /\ entry = Direct

NextConcurrent == \E i \in 1..NCalls : ThreadStep(i)

SpecConcurrent == InitConcurrent /\ [][NextConcurrent]_vars

(***************************************************************************)
(* C12: calls that run at the same time, interleaved in any order and      *)
(* without synchronization, each return the result they return when run    *)
(* alone: a step of one call changes nothing of another call, and a call   *)
(* that has returned holds the result of key_recovery on its arguments.    *)
(***************************************************************************)
C12_Step ==
    /\ \E i \in 1..NCalls :
         /\ threads[i].pc # "done"
         /\ threads'[i] = Exec(threads[i])
         /\ \A j \in 1..NCalls \ {i} : threads'[j] = threads[j]
    /\ \A i \in 1..NCalls :
         threads'[i].pc = "done"
         => threads'[i].result = key_recovery(threads'[i].args)

C12_Interleaved == [][C12_Step]_vars

\* Two calls have returned, one with a key and one with an error.
C12_Witness ==
    /\ Len(threads) = NCalls
    /\ \A i \in 1..NCalls : threads[i].pc = "done"
    /\ threads[1].result.public_key # << >>
    /\ threads[1].result.error_message = ""
    /\ threads[2].result = [public_key |-> << >>,
                            error_message |-> MSG_INVERSE]
    /\ threads[1].args # threads[2].args

(***************************************************************************)
(* Calls of key_recovery one after another: when a call has returned the   *)
(* caller may call again, with the same or with other arguments.           *)
(***************************************************************************)
MaxCalls == 3

SequentialArgs == ConcurrentArgs

\* A result structure of static storage: a call starts with what the call
\* before left in it.
EntryResult_Static(previous) == previous

\* Line 51: result is initialised to zeros at every entry.
EntryResult(previous) == EmptyResult

\* What the caller has got back from the call that returned.
Returned == [args |-> args, result |-> result]

CallAgain ==
    /\ pc = "done"
    /\ Len(history) < MaxCalls - 1
    /\ \E a \in SequentialArgs :
         /\ args' = a
         /\ pc' = InitFrame(a).pc
         /\ l' = InitFrame(a).l
         /\ live' = InitFrame(a).live
         /\ freed' = InitFrame(a).freed
         /\ trace' = InitFrame(a).trace
         /\ fault_at' = InitFrame(a).fault_at
    /\ result' = EntryResult(result)
    /\ history' = Append(history, Returned)
    /\ UNCHANGED <<inject, signer, threads, entry>>

InitSequential ==
    /\ \E a \in SequentialArgs : InitCall(a)
    /\ inject = FALSE
    /\ signer = NoSigner
    /\ entry = Direct

NextSequential == Next \/ CallAgain

SpecSequential == InitSequential /\ [][NextSequential]_vars

(***************************************************************************)
(* C13: key_recovery is a deterministic function of its arguments and      *)
(* keeps no state: whatever calls were made before, a call returns the     *)
(* result of key_recovery on its arguments, so two calls with equal        *)
(* arguments return equal results; and no statement changes the digest,    *)
(* r or s the caller passed.  (The library does not fail for lack of       *)
(* resources.)                                                             *)
(***************************************************************************)
C13_Step ==
    /\ pc # "done" => (args' = args /\ history' = history)
    /\ pc' = "done"
       => LET returned == Append(history', [args |-> args', result |-> result'])
          IN  /\ \A i \in 1..Len(returned) :
                   returned[i].result = key_recovery(returned[i].args)
              /\ \A i, j \in 1..Len(returned) :
                   returned[i].args = returned[j].args
                   => returned[i].result = returned[j].result

C13_Deterministic == [][C13_Step]_vars

\* The third call returns the key the first call returned on the same
\* arguments, the second call having failed on others.
C13_Witness ==
    /\ Done
    /\ Len(history) = 2
    /\ history[1].args = args
    /\ history[2].args # args
    /\ history[2].result.error_message = MSG_R_HEX
    /\ ReturnedKey
    /\ history[1].result = result

(***************************************************************************)
(* C14: the curve has cofactor 1, so whenever the decompression of R has   *)
(* succeeded n*R is the point at infinity and the order check passes: no   *)
(* call ends with the error "Point nR should be at infinity", whether or   *)
(* not the library fails for lack of resources.                            *)
(***************************************************************************)
C14_OrderCheckPasses ==
    /\ result.error_message # MSG_NR_INF
    /\ pc = "is_at_infinity"
       => /\ l.R # Infinity
          /\ EC_POINT_is_on_curve(l.R)
          /\ l.nR = EC_POINT_mul(l.R, OrderN)
          /\ EC_POINT_is_at_infinity(l.nR) = 1

\* The order check has passed for the point with x-coordinate 240, an
\* x-coordinate above the group order.
C14_Witness ==
    /\ pc = "bin2bn_e"
    /\ l.R # Infinity
    /\ l.R[1] = 240
    /\ l.nR = Infinity
    /\ trace[Len(trace)] = "EC_POINT_is_at_infinity"
    /\ result = EmptyResult

(***************************************************************************)
(* C15: the error a call reports is that of the earliest step that fails,  *)
(* in the order: recovery-id check, parse of r, decompression, order       *)
(* check, digest conversion, inverse of r, parse of s, point computations. *)
(* So an invalid recovery id masks every other error, an r that is no      *)
(* x-coordinate masks the missing inverse, and an unparsable s is reported *)
(* only when r parses, is an x-coordinate and has an inverse.  (The curve  *)
(* is known and no step outside the list fails.)                           *)
(***************************************************************************)
ErrorOrder ==
    <<"check_v", "hex2bn_r", "set_compressed", "is_at_infinity", "bin2bn_e",
      "mod_inverse", "hex2bn_s", "mul_sR", "mul_eG", "add_U", "mul_Q">>

ErrorOf(pos) == IF pos = "check_v" THEN MSG_V ELSE CallSites[pos].msg

\* Whether the step at pos fails on the arguments of the call, or for lack
\* of resources.
StepFails(pos) ==
    \/ fault_at = pos
    \/ CASE pos = "check_v" -> ~ValidSignatureV(args.signature_v)
         [] pos = "hex2bn_r" -> RParsed.ret = FAILURE
         [] pos = "set_compressed" ->
               RParsed.ret # FAILURE
                 /\ (RParsed.val % FieldP) \notin XCoordinates
         [] pos = "mod_inverse" ->
               RParsed.ret # FAILURE /\ RParsed.val % OrderN = 0
         [] pos = "hex2bn_s" ->
               BN_hex2bn(args.signature_s_hex).ret = FAILURE
         [] OTHER -> FALSE

EarliestError ==
    LET failing == {i \in 1..Len(ErrorOrder) : StepFails(ErrorOrder[i])}
    IN  IF failing = {} THEN ""
        ELSE ErrorOf(ErrorOrder[CHOOSE i \in failing :
                                   \A j \in failing : i <= j])

C15_EarliestError ==
    (Done /\ KnownCurve(args.curve_nid)
       /\ fault_at \in {"none"} \cup {ErrorOrder[i] : i \in 1..Len(ErrorOrder)})
    => result.error_message = EarliestError

\* r = n is no x-coordinate and has no inverse, and s does not parse: the
\* call reports the decompression.
C15_Witness ==
    /\ Done
    /\ NoFault
    /\ ValidSignatureV(args.signature_v)
    /\ RParsed.val = OrderN
    /\ StepFails("set_compressed")
    /\ StepFails("mod_inverse")
    /\ StepFails("hex2bn_s")
    /\ Failed(MSG_COMPRESSED)

(***************************************************************************)
(* C16: every call terminates after a single pass without loop: each step  *)
(* moves to a later one of the twenty-eight statements, every statement    *)
(* but the return has a next step, and a call makes at most one            *)
(* decompression, four scalar multiplications, one point addition and one  *)
(* modular inversion before it reaches the exit and returns.               *)
(***************************************************************************)
Statements ==
    <<"check_v", "group_new", "ctx_new", "p_new", "get_curve", "get0_order",
      "hex2bn_r", "R_new", "set_compressed", "nR_new", "mul_nR",
      "is_at_infinity", "bin2bn_e", "mod_inverse", "hex2bn_s", "sR_new",
      "mul_sR", "set_negative", "eG_new", "mul_eG", "U_new", "add_U",
      "Q_new", "mul_Q", "point2hex", "copy", "end", "done">>

StatementIndex(pos) == CHOOSE i \in 1..Len(Statements) : Statements[i] = pos

C16_Counts ==
    /\ Occurrences(trace, "EC_POINT_set_compressed_coordinates") <= 1
    /\ Occurrences(trace, "EC_POINT_mul") <= 4
    /\ Occurrences(trace, "EC_POINT_add") <= 1
    /\ Occurrences(trace, "BN_mod_inverse") <= 1

C16_Step == StatementIndex(pc') > StatementIndex(pc)

\* Every statement but the return has a step, and it leads to a later
\* statement.
C16_Progress ==
    Done \/ StatementIndex(Exec(Frame).pc) > StatementIndex(pc)

C16_SinglePass ==
    /\ [](C16_Counts /\ C16_Progress)
    /\ [][C16_Step]_vars

\* A call that returned after one decompression, four multiplications, one
\* addition and one inversion.
C16_Witness ==
    /\ Done
    /\ Occurrences(trace, "EC_POINT_set_compressed_coordinates") = 1
    /\ Occurrences(trace, "EC_POINT_mul") = 4
    /\ Occurrences(trace, "EC_POINT_add") = 1
    /\ Occurrences(trace, "BN_mod_inverse") = 1
    /\ Len(trace) = 23 + Len(Releases)

(***************************************************************************)
(* C17: whenever a call returns a key, r and s are both in [1, n-1]: no    *)
(* key is returned for s = 0, for s >= n or for r >= n.                    *)
(***************************************************************************)
SParsed == BN_hex2bn(args.signature_s_hex)

C17_RangeEnforced ==
    (Done /\ ReturnedKey)
    => /\ RParsed.val \in 1..(OrderN - 1)
       /\ SParsed.val \in 1..(OrderN - 1)

(***************************************************************************)
(* C18: whenever the decompression is invoked its parity argument is the   *)
(* canonical recovery id, 0 or 1; whenever it has succeeded R is a point   *)
(* of the curve, the x-coordinate of R equals r, and the parity of its     *)
(* y-coordinate equals the low bit of the canonical recovery id.           *)
(***************************************************************************)
DecompressionInvoked == pc = "set_compressed"

DecompressionSucceeded == pc = "nR_new"

C18_Decompression ==
    /\ DecompressionInvoked
       => /\ l.signature_v \in {0, 1}
          /\ l.signature_v = CanonicalSignatureV(args.signature_v)
          /\ l.x = l.r
    /\ DecompressionSucceeded
       => /\ l.R # Infinity
          /\ EC_POINT_is_on_curve(l.R)
          /\ l.R[1] = l.r
          /\ l.R[2] % 2 = l.signature_v % 2

\* With r in [0, p-1] the decompression does what C18 says.
DecompressionWhenRInField ==
    /\ DecompressionInvoked
       => /\ l.signature_v \in {0, 1}
          /\ l.signature_v = CanonicalSignatureV(args.signature_v)
          /\ l.x = l.r
    /\ (DecompressionSucceeded /\ l.r \in 0..(FieldP - 1))
       => /\ l.R # Infinity
          /\ EC_POINT_is_on_curve(l.R)
          /\ l.R[1] = l.r
          /\ l.R[2] % 2 = l.signature_v % 2
    /\ DecompressionSucceeded
       => /\ l.R[1] = l.r % FieldP
          /\ l.R[2] % 2 = l.signature_v % 2

(***************************************************************************)
(* C19: e is the big-endian unsigned value of the (truncated) digest and   *)
(* is not reduced modulo n before it is negated and multiplied; the result *)
(* depends on e only through e mod n: two digests of at most               *)
(* curve_byte_length bytes whose values are congruent modulo n give the    *)
(* same result, everything else equal.                                     *)
(***************************************************************************)
DigestValue(a) ==
    BN_bin2bn(a.data_hash, TruncatedHashLen(a.data_hash_len,
                                            a.curve_byte_length))

WithDigest(a, hash) ==
    [a EXCEPT !.data_hash = hash, !.data_hash_len = Len(hash)]

C19_DigestModuloOrder ==
    /\ pc \in {"mod_inverse", "hex2bn_s", "sR_new", "mul_sR", "set_negative"}
       => l.e = DigestValue(args)
    /\ pc \in {"eG_new", "mul_eG", "U_new", "add_U", "Q_new", "mul_Q",
               "point2hex", "copy"}
       => l.e = -DigestValue(args)
    /\ pc \in {"U_new", "add_U", "Q_new", "mul_Q", "point2hex", "copy"}
       => l.negative_eG
            = EC_POINT_invert(EC_POINT_mul(Generator,
                                           DigestValue(args) % OrderN))
    /\ (Done /\ NoFault /\ args.data_hash_len <= args.curve_byte_length)
       => \A hash \in Digests :
            (Len(hash) <= args.curve_byte_length
               /\ DigestValue(WithDigest(args, hash)) % OrderN
                    = DigestValue(args) % OrderN)
            => key_recovery(WithDigest(args, hash)) = result

\* The digest n + 1 was negated as it is, and the key returned is that of
\* the digest 1.
C19_Witness ==
    /\ Done
    /\ ReturnedKey
    /\ args.data_hash = <<OrderN + 1>>
    /\ l.e = -(OrderN + 1)
    /\ result = key_recovery(WithDigest(args, <<1>>))

(***************************************************************************)
(* C20: for every call with r and s in [1, n-1] that returns a key Q, the  *)
(* signature verifies under Q: (e * s^-1)*G + (r * s^-1)*Q is the point R  *)
(* the call reconstructed, and the x-coordinate of R is r.                 *)
(***************************************************************************)
\* The point ECDSA verification computes for the key P.
VerificationPoint(P) ==
    LET w == BN_mod_inverse(SParsed.val, OrderN).val
        u1 == (DigestValue(args) * w) % OrderN
        u2 == (RParsed.val * w) % OrderN
    IN  EC_POINT_add(EC_POINT_mul(Generator, u1), EC_POINT_mul(P, u2))

C20_SignatureVerifies ==
    (Done /\ ReturnedKey
       /\ RParsed.val \in 1..(OrderN - 1) /\ SParsed.val \in 1..(OrderN - 1))
    => /\ l.Q \in AffinePoints
       /\ result.public_key = PublicKeyHex(l.Q)
       /\ VerificationPoint(l.Q) = l.R
       /\ l.R # Infinity
       /\ l.R[1] = RParsed.val

\* A key returned for a non-zero digest and r, s in range, under which the
\* signature verifies.
C20_Witness ==
    /\ Done
    /\ ReturnedKey
    /\ RParsed.val \in 1..(OrderN - 1)
    /\ SParsed.val \in 2..(OrderN - 1)
    /\ DigestValue(args) % OrderN # 0
    /\ VerificationPoint(l.Q) = l.R
    /\ l.R[1] = RParsed.val

(***************************************************************************)
(* C21: for a fixed r the decompression succeeds with recovery id 0        *)
(* exactly when it succeeds with recovery id 1, and the two points are     *)
(* negations of each other; so for a fixed digest and an s that is not a   *)
(* multiple of n the calls with id 0 and id 1 fail alike or return         *)
(* different keys.                                                         *)
(***************************************************************************)
WithRecoveryId(a, v) == [a EXCEPT !.signature_v = v]

C21_IdSymmetry ==
    /\ DecompressionInvoked
       => LET even == EC_POINT_set_compressed_coordinates(l.x, 0)
              odd  == EC_POINT_set_compressed_coordinates(l.x, 1)
          IN  /\ even.ret = odd.ret
              /\ even.ret = SUCCESS
                 => /\ odd.point = EC_POINT_invert(even.point)
                    /\ odd.point # even.point
    /\ DecompressionSucceeded
       => l.R = EC_POINT_set_compressed_coordinates(l.x, l.signature_v).point
    /\ (Done /\ NoFault /\ ValidSignatureV(args.signature_v)
          /\ SParsed.ret # FAILURE /\ SParsed.val % OrderN # 0)
       => LET other == key_recovery(WithRecoveryId(args,
                           1 - CanonicalSignatureV(args.signature_v)))
          IN  /\ result.error_message = other.error_message
              /\ result.error_message = ""
                 => result.public_key # other.public_key

\* A call with id 1 returned a key, and the call with id 0 returns another.
C21_Witness ==
    /\ Done
    /\ ReturnedKey
    /\ args.signature_v = 1
    /\ SParsed.val % OrderN # 0
    /\ key_recovery(WithRecoveryId(args, 0)).public_key # << >>
    /\ key_recovery(WithRecoveryId(args, 0)).public_key # result.public_key
    /\ l.R = EC_POINT_invert(EC_POINT_set_compressed_coordinates(l.x, 0).point)

(***************************************************************************)
(* C22: a digest of at most curve_byte_length bytes, the empty digest      *)
(* included, is used in full and never rejected for its length: the call   *)
(* ends with the error it ends with on any other digest, e is the value of *)
(* all its bytes, the empty digest gives e = 0 and Q = r^-1 * (s*R), and a *)
(* zero byte put in front of the digest leaves the result unchanged as     *)
(* long as the length stays at most curve_byte_length.                     *)
(***************************************************************************)
C22_ShortDigest ==
    (Done /\ NoFault /\ args.data_hash_len <= args.curve_byte_length)
    => /\ l.data_hash_len = Len(args.data_hash)
       /\ result.error_message
            = key_recovery(WithDigest(args, <<1>>)).error_message
       /\ result.error_message # MSG_E
       /\ result.error_message = ""
          => /\ l.e = -BN_bin2bn(args.data_hash, Len(args.data_hash))
             /\ args.data_hash = << >>
                => /\ l.e = 0
                   /\ l.negative_eG = Infinity
                   /\ l.Q = EC_POINT_mul(EC_POINT_mul(l.R, l.s), l.inverse_r)
       /\ Len(args.data_hash) + 1 <= args.curve_byte_length
          => key_recovery(WithDigest(args, <<0>> \o args.data_hash)) = result

\* The empty digest: e is 0 and the key returned is r^-1 * (s*R), the key
\* returned for the digest 00 as well.
C22_Witness ==
    /\ Done
    /\ ReturnedKey
    /\ args.data_hash = << >>
    /\ l.e = 0
    /\ l.Q = EC_POINT_mul(EC_POINT_mul(l.R, l.s), l.inverse_r)
    /\ key_recovery(WithDigest(args, <<0>>)) = result

\* With curve_byte_length 2 the digest 01 returns the key of the digest
\* 00 01.
ZeroByteInFront ==
    /\ Done
    /\ ReturnedKey
    /\ args.curve_byte_length = WideByteLength
    /\ args.data_hash = <<1>>
    /\ l.e = -1
    /\ key_recovery(WithDigest(args, <<0, 1>>)) = result

(***************************************************************************)
(* C23: p256_key_recovery returns, for every input, exactly the result of  *)
(* key_recovery on the same digest, r, s and recovery id with the curve    *)
(* prime256v1 and its byte length: the parameters reach key_recovery as    *)
(* the caller passed them, nothing is validated or transformed on the way, *)
(* and the result comes back as key_recovery returned it.                  *)
(***************************************************************************)
\* The arguments key_recovery has to get for the parameters of the entry.
ArgsOnP256 ==
    [data_hash |-> entry.data_hash,
     data_hash_len |-> Len(entry.data_hash),
     signature_r_hex |-> entry.signature_r_hex,
     signature_s_hex |-> entry.signature_s_hex,
     signature_v |-> entry.signature_v,
     curve_nid |-> NID_X9_62_prime256v1,
     curve_byte_length |-> CURVE_BYTE_LENGTH]

C23_Wrapper ==
    entry.via = "p256_key_recovery"
    => /\ args = ArgsOnP256
       /\ pc = "check_v" => Frame = InitFrame(ArgsOnP256)
       /\ Done => result = key_recovery(ArgsOnP256)

\* A call of p256_key_recovery with the invalid recovery id 2 and an r that
\* does not parse has returned the error key_recovery returns.
C23_Witness ==
    /\ Done
    /\ entry.via = "p256_key_recovery"
    /\ entry.signature_v = 2
    /\ entry.signature_r_hex = <<"g">>
    /\ result = key_recovery(ArgsOnP256)
    /\ Failed(MSG_V)

(***************************************************************************)
(* C24: the message of every failure site identifies the site: when a call *)
(* of the library fails, no other site reports the message the call ends   *)
(* with.  In particular the multiplication by the negated digest and the   *)
(* multiplication of R by s report different messages.                     *)
(***************************************************************************)
SitesReporting(msg) == {q \in FalliblePositions : CallSites[q].msg = msg}

C24_Step ==
    (pc \in FalliblePositions /\ pc' = "end")
    => /\ result'.error_message = CallSites[pc].msg
       /\ result'.error_message # MSG_V
       /\ SitesReporting(result'.error_message) = {pc}

C24_MessageIdentifiesSite == [][C24_Step]_vars

\* Apart from the two multiplications, which share one message, the message
\* identifies the site.
MessageIdentifiesSiteButForEG ==
    [][(pc \in FalliblePositions /\ pc' = "end")
       => /\ result'.error_message = CallSites[pc].msg
          /\ result'.error_message # MSG_V
          /\ SitesReporting(result'.error_message) \in
               {{pc}, {"mul_sR", "mul_eG"}}]_vars

=============================================================================
